---- MODULE Spec2Model ----
(***************************************************************************)
(* Healthcare assistant: the offline index builder (create_faiss.py) and   *)
(* the online diagnosis engine (diagnosis.py).                             *)
(*                                                                         *)
(* Spec         the persisted store, one builder process running           *)
(*              create_faiss_index and one process constructing a          *)
(*              HealthcareDiagnoser (load_faiss_index), interleaved at     *)
(*              the granularity of one file access.                        *)
(* SpecBuild    the builder alone (the loader only reads the store).       *)
(* SpecSynth    the builder alone, on health files whose records have      *)
(*              every combination of empty and non-empty lists.            *)
(* SpecDiagnose diagnose / generate_response on a loaded diagnoser, the    *)
(*              loaded tables and the query's distances drawn from         *)
(*              bounded sets.                                              *)
(*                                                                         *)
(* Conventions: a Python list is a sequence, Python positions are 0-based  *)
(* (PyIndex translates), a dict that is iterated is a sequence of          *)
(* [key, value] pairs in insertion order. A distance is a fixed-point      *)
(* number counted in quarters, so that d * 20 is (d * 20) \div 4 here.     *)
(***************************************************************************)
EXTENDS Integers, Sequences, FiniteSets, TLC

\* ------------------------------------------------------------------ bounds
MaxRecords == 2   \* entries of data/health.json
MaxBuilds == 2    \* runs of create_faiss_index
MaxMeta == 4      \* SpecDiagnose: entries of the loaded metadata table
MaxVectors == 3   \* SpecDiagnose: vectors of the loaded index

\* ------------------------------------------------------ python primitives
Max(a, b) == IF a >= b THEN a ELSE b
Min(a, b) == IF a <= b THEN a ELSE b

\* seq[:n]
Take(s, n) == SubSeq(s, 1, Min(n, Len(s)))

\* seq[idx] for a 0-based idx; a negative idx counts from the end
PyIndex(s, idx) == IF idx >= 0 THEN s[idx + 1] ELSE s[Len(s) + idx + 1]

\* str.strip() on the names that occur in the model
Strip(s) ==
    CASE s = " Flu " -> "Flu"
      [] s = "  " -> ""
      [] OTHER -> s

\* str.lower() on the names that occur in the model
Lower(s) ==
    CASE s = "Flu" -> "flu"
      [] s = "Migraine" -> "migraine"
      [] s = "Cold" -> "cold"
      [] OTHER -> s

SeqsUpTo(S, n) == UNION {[1..m -> S] : m \in 0..n}

\* --------------------------------------------------- create_faiss.py: data
\* entries of the "diseases" array of data/health.json
RawPool ==
    { [name |-> " Flu ", symptoms |-> <<"fever", "cough">>,
       medicines |-> <<"Paracetamol">>, precautions |-> <<"Rest">>],
      [name |-> "flu", symptoms |-> <<>>, medicines |-> <<>>,
       precautions |-> <<>>],
      [name |-> "  ", symptoms |-> <<"itch">>, medicines |-> <<>>,
       precautions |-> <<>>] }

\* the health file: missing / unreadable, or a "diseases" array
HealthFiles ==
    {[ok |-> FALSE, diseases |-> <<>>]}
        \cup {[ok |-> TRUE, diseases |-> d] : d \in SeqsUpTo(RawPool, MaxRecords)}

\* parse_health_file: strip the name, keep the entries with a non-empty name
RECURSIVE ParseFrom(_, _, _)
ParseFrom(raw, i, diseases) ==
    IF i > Len(raw) THEN diseases
    ELSE LET disease == Strip(raw[i].name)
             disease_data == [disease |-> disease,
                              symptoms |-> raw[i].symptoms,
                              medicines |-> raw[i].medicines,
                              precautions |-> raw[i].precautions]
         IN  ParseFrom(raw, i + 1,
                       IF disease # "" THEN Append(diseases, disease_data)
                       ELSE diseases)

parse_health_file(file) == ParseFrom(file.diseases, 1, <<>>)

\* ------------------------------------------- create_faiss.py: synthesizer
\* A document is the text of one view: which view, the disease name, and the
\* labelled, comma-joined lists the f-string puts in it.
Part(label, items) == [label |-> label, items |-> items]

comprehensive_doc(r) ==
    [view |-> "comprehensive", disease |-> r.disease,
     parts |-> (IF r.symptoms # <<>> THEN <<Part("SYMPTOMS", r.symptoms)>> ELSE <<>>)
            \o (IF r.medicines # <<>> THEN <<Part("MEDICINES", r.medicines)>> ELSE <<>>)
            \o (IF r.precautions # <<>> THEN <<Part("PRECAUTIONS", r.precautions)>> ELSE <<>>)]

symptoms_doc(r) ==
    [view |-> "symptoms", disease |-> r.disease,
     parts |-> <<Part("SYMPTOMS", r.symptoms),
                 Part("Common signs include", Take(r.symptoms, 3))>>]

treatment_doc(r) ==
    [view |-> "treatment", disease |-> r.disease,
     parts |-> <<Part("Medications include", Take(r.medicines, 3)),
                 Part("are commonly prescribed", Take(r.medicines, 2))>>]

prevention_doc(r) ==
    [view |-> "prevention", disease |-> r.disease,
     parts |-> <<Part("PREVENTION", Take(r.precautions, 3)),
                 Part("Recommended precautions", Take(r.precautions, 2))>>]

\* doc_variations with the symptoms view appended whatever the list holds
doc_variations_AlwaysSymptoms(r) ==
    <<comprehensive_doc(r), symptoms_doc(r)>>
        \o (IF r.medicines # <<>> THEN <<treatment_doc(r)>> ELSE <<>>)
        \o (IF r.precautions # <<>> THEN <<prevention_doc(r)>> ELSE <<>>)

\* the doc_variations list of one record
doc_variations(r) ==
    <<comprehensive_doc(r)>>
        \o (IF r.symptoms # <<>> THEN <<symptoms_doc(r)>> ELSE <<>>)
        \o (IF r.medicines # <<>> THEN <<treatment_doc(r)>> ELSE <<>>)
        \o (IF r.precautions # <<>> THEN <<prevention_doc(r)>> ELSE <<>>)

\* the metadata dict appended beside each document
MetaOf(r) ==
    [disease |-> r.disease, symptoms |-> r.symptoms,
     medicines |-> r.medicines, precautions |-> r.precautions]

\* for doc in doc_variations: documents.append(doc); metadata.append({...})
AddVariations_OncePerRecord(vars, j, r, kb) ==
    [documents |-> kb.documents \o vars,
     metadata |-> Append(kb.metadata, MetaOf(r))]

RECURSIVE AddVariations(_, _, _, _)
AddVariations(vars, j, r, kb) ==
    IF j > Len(vars) THEN kb
    ELSE AddVariations(vars, j + 1, r,
                       [documents |-> Append(kb.documents, vars[j]),
                        metadata |-> Append(kb.metadata, MetaOf(r))])

\* for disease_info in disease_data: ...
RECURSIVE KnowledgeLoop(_, _, _)
KnowledgeLoop(disease_data, i, kb) ==
    IF i > Len(disease_data) THEN kb
    ELSE KnowledgeLoop(disease_data, i + 1,
                       AddVariations(doc_variations(disease_data[i]), 1,
                                     disease_data[i], kb))

\* create_knowledge_base, given the parsed disease_data
create_knowledge_base(disease_data) ==
    IF disease_data = <<>> THEN [documents |-> <<>>, metadata |-> <<>>]
    ELSE KnowledgeLoop(disease_data, 1, [documents |-> <<>>, metadata |-> <<>>])

\* embedder.encode(documents): one vector per document, a function of its text
Embed(doc) == [text |-> doc]
Encode(documents) == [i \in 1..Len(documents) |-> Embed(documents[i])]


\* ------------------------------------------------------------------ state
VARIABLES
    store,        \* faiss_index/: folder, index.faiss, docs.pkl, metadata.pkl
    storeBuild,   \* history: the build that wrote each artifact (0: none)
    pcB,          \* create_faiss_index: the statement the builder is at
    build,        \* number of create_faiss_index runs started
    kb,           \* builder locals: disease_data, documents, metadata
    bIndex,       \* builder local: the faiss index (its vectors)
    storeBefore,  \* history: store and storeBuild when the run started
    outcomes,     \* what each finished create_faiss_index run returned
    pcL,          \* HealthcareDiagnoser.__init__: the statement it is at
    diagnoser,    \* self.index, self.documents, self.metadata
    loadedBuild,  \* history: the build of each artifact the diagnoser read
    lastCall      \* the last diagnose call: its arguments, locals and result

vars == <<store, storeBuild, pcB, build, kb, bIndex, storeBefore, outcomes,
          pcL, diagnoser, loadedBuild, lastCall>>

builderVars == <<pcB, build, kb, bIndex, storeBefore, outcomes>>
storeVars == <<store, storeBuild>>
loaderVars == <<pcL, diagnoser, loadedBuild>>

NoFile == [exists |-> FALSE, data |-> <<>>]
File(data) == [exists |-> TRUE, data |-> data]

NoBuilds == [index |-> 0, docs |-> 0, meta |-> 0]
EmptyStore == [folder |-> FALSE, index |-> NoFile, docs |-> NoFile, meta |-> NoFile]
EmptyKb == [records |-> <<>>, documents |-> <<>>, metadata |-> <<>>]
NoDiagnoser == [index |-> <<>>, documents |-> <<>>, metadata |-> <<>>]
NoCall == [called |-> FALSE, top_k |-> 0, raw |-> <<>>, hits |-> <<>>,
           unique |-> <<>>, sorted |-> <<>>, diagnoses |-> <<>>,
           error |-> "none", message |-> [kind |-> "none", count |-> 0]]

Init ==
    /\ store = EmptyStore
    /\ storeBuild = NoBuilds
    /\ pcB = "idle"
    /\ build = 0
    /\ kb = EmptyKb
    /\ bIndex = <<>>
    /\ storeBefore = [store |-> EmptyStore, builds |-> NoBuilds]
    /\ outcomes = <<>>
    /\ pcL = "new"
    /\ diagnoser = NoDiagnoser
    /\ loadedBuild = NoBuilds
    /\ lastCall = NoCall

\* ------------------------------------------ create_faiss.py: the builder
\* A statement that raises inside a try block makes create_faiss_index
\* return False; what was written before it stays written.
Fail ==
    /\ pcB' = "failed"
    /\ outcomes' = Append(outcomes, FALSE)

\* create_faiss_index starts: create_knowledge_base on the health file.
\* check_file fails: create_knowledge_base raises; no documents: return False.
StartBuild(file) ==
    /\ pcB = "idle"
    /\ build < MaxBuilds
    /\ build' = build + 1
    /\ storeBefore' = [store |-> store, builds |-> storeBuild]
    /\ bIndex' = <<>>
    /\ IF ~file.ok
       THEN /\ kb' = EmptyKb
            /\ Fail
       ELSE LET disease_data == parse_health_file(file)
                made == create_knowledge_base(disease_data)
            IN  /\ kb' = [records |-> disease_data,
                          documents |-> made.documents,
                          metadata |-> made.metadata]
                /\ IF made.documents = <<>>
                   THEN Fail
                   ELSE /\ pcB' = "load_model"
                        /\ UNCHANGED outcomes
    /\ UNCHANGED <<storeVars, loaderVars, lastCall>>

\* embedder = SentenceTransformer(self.embed_model)
LoadEmbedder(ok) ==
    /\ pcB = "load_model"
    /\ IF ok THEN pcB' = "encode" /\ UNCHANGED outcomes ELSE Fail
    /\ UNCHANGED <<build, kb, bIndex, storeBefore, storeVars, loaderVars, lastCall>>

\* embeddings = embedder.encode(documents); index.add(embeddings)
\* (the embeddings are kept in bIndex until the index is built from them)
GenerateEmbeddings(ok) ==
    /\ pcB = "encode"
    /\ IF ok
       THEN /\ bIndex' = Encode(kb.documents)
            /\ pcB' = "create_index"
            /\ UNCHANGED outcomes
       ELSE /\ Fail
            /\ UNCHANGED bIndex
    /\ UNCHANGED <<build, kb, storeBefore, storeVars, loaderVars, lastCall>>

CreateIndex(ok) ==
    /\ pcB = "create_index"
    /\ IF ok THEN pcB' = "save_index" /\ UNCHANGED outcomes ELSE Fail
    /\ UNCHANGED <<build, kb, bIndex, storeBefore, storeVars, loaderVars, lastCall>>

\* os.makedirs(exist_ok=True); faiss.write_index(index, "index.faiss")
SaveIndex(ok) ==
    /\ pcB = "save_index"
    /\ IF ok
       THEN /\ store' = [store EXCEPT !.folder = TRUE, !.index = File(bIndex)]
            /\ storeBuild' = [storeBuild EXCEPT !.index = build]
            /\ pcB' = "save_docs"
            /\ UNCHANGED outcomes
       ELSE /\ \E made \in BOOLEAN :
                   store' = [store EXCEPT !.folder = store.folder \/ made]
            /\ UNCHANGED storeBuild
            /\ Fail
    /\ UNCHANGED <<build, kb, bIndex, storeBefore, loaderVars, lastCall>>

\* pickle.dump(documents, open("docs.pkl", "wb"))
SaveDocs(ok) ==
    /\ pcB = "save_docs"
    /\ IF ok
       THEN /\ store' = [store EXCEPT !.docs = File(kb.documents)]
            /\ storeBuild' = [storeBuild EXCEPT !.docs = build]
            /\ pcB' = "save_meta"
            /\ UNCHANGED outcomes
       ELSE /\ UNCHANGED storeVars
            /\ Fail
    /\ UNCHANGED <<build, kb, bIndex, storeBefore, loaderVars, lastCall>>

\* pickle.dump(metadata, open("metadata.pkl", "wb")); return True
SaveMeta(ok) ==
    /\ pcB = "save_meta"
    /\ IF ok
       THEN /\ store' = [store EXCEPT !.meta = File(kb.metadata)]
            /\ storeBuild' = [storeBuild EXCEPT !.meta = build]
            /\ pcB' = "done"
            /\ outcomes' = Append(outcomes, TRUE)
       ELSE /\ UNCHANGED storeVars
            /\ Fail
    /\ UNCHANGED <<build, kb, bIndex, storeBefore, loaderVars, lastCall>>

\* the builder process exits; the script may be run again
ExitBuild ==
    /\ pcB \in {"done", "failed"}
    /\ pcB' = "idle"
    /\ kb' = EmptyKb
    /\ bIndex' = <<>>
    /\ UNCHANGED <<build, storeBefore, outcomes, storeVars, loaderVars, lastCall>>

\* ------------------------------------------ diagnosis.py: load_faiss_index
\* if not os.path.exists(self.faiss_folder): raise FileNotFoundError
LoadStart ==
    /\ pcL = "new"
    /\ pcL' = IF store.folder THEN "read_index" ELSE "failed"
    /\ UNCHANGED <<diagnoser, loadedBuild, storeVars, builderVars, lastCall>>

\* self.index = faiss.read_index(index_path)
ReadIndex ==
    /\ pcL = "read_index"
    /\ IF store.index.exists
       THEN /\ diagnoser' = [diagnoser EXCEPT !.index = store.index.data]
            /\ loadedBuild' = [loadedBuild EXCEPT !.index = storeBuild.index]
            /\ pcL' = "read_docs"
       ELSE /\ pcL' = "failed"
            /\ UNCHANGED <<diagnoser, loadedBuild>>
    /\ UNCHANGED <<storeVars, builderVars, lastCall>>

\* self.documents = pickle.load(open(docs_path))
ReadDocs ==
    /\ pcL = "read_docs"
    /\ IF store.docs.exists
       THEN /\ diagnoser' = [diagnoser EXCEPT !.documents = store.docs.data]
            /\ loadedBuild' = [loadedBuild EXCEPT !.docs = storeBuild.docs]
            /\ pcL' = "read_meta"
       ELSE /\ pcL' = "failed"
            /\ UNCHANGED <<diagnoser, loadedBuild>>
    /\ UNCHANGED <<storeVars, builderVars, lastCall>>

\* self.metadata = pickle.load(open(metadata_path)); the constructor returns
ReadMeta ==
    /\ pcL = "read_meta"
    /\ IF store.meta.exists
       THEN /\ diagnoser' = [diagnoser EXCEPT !.metadata = store.meta.data]
            /\ loadedBuild' = [loadedBuild EXCEPT !.meta = storeBuild.meta]
            /\ pcL' = "loaded"
       ELSE /\ pcL' = "failed"
            /\ UNCHANGED <<diagnoser, loadedBuild>>
    /\ UNCHANGED <<storeVars, builderVars, lastCall>>

Next ==
    \/ \E file \in HealthFiles : StartBuild(file)
    \/ \E ok \in BOOLEAN : LoadEmbedder(ok)
    \/ \E ok \in BOOLEAN : GenerateEmbeddings(ok)
    \/ \E ok \in BOOLEAN : CreateIndex(ok)
    \/ \E ok \in BOOLEAN : SaveIndex(ok)
    \/ \E ok \in BOOLEAN : SaveDocs(ok)
    \/ \E ok \in BOOLEAN : SaveMeta(ok)
    \/ ExitBuild
    \/ LoadStart
    \/ ReadIndex
    \/ ReadDocs
    \/ ReadMeta

Spec == Init /\ [][Next]_vars

\* the builder alone: runs of create_faiss_index with no diagnoser started
NextBuild ==
    \/ \E file \in HealthFiles : StartBuild(file)
    \/ \E ok \in BOOLEAN : LoadEmbedder(ok)
    \/ \E ok \in BOOLEAN : GenerateEmbeddings(ok)
    \/ \E ok \in BOOLEAN : CreateIndex(ok)
    \/ \E ok \in BOOLEAN : SaveIndex(ok)
    \/ \E ok \in BOOLEAN : SaveDocs(ok)
    \/ \E ok \in BOOLEAN : SaveMeta(ok)
    \/ ExitBuild

SpecBuild == Init /\ [][NextBuild]_vars

\* entries of health.json with every combination of empty and non-empty lists
SynthPool ==
    { [name |-> "Cold", symptoms |-> s, medicines |-> m, precautions |-> p] :
        s \in {<<>>, <<"sneezing", "cough", "fever", "chills">>},
        m \in {<<>>, <<"Paracetamol">>},
        p \in {<<>>, <<"Rest", "Fluids">>} }

\* the health files of HealthFiles and the files of one SynthPool entry
SynthFiles ==
    HealthFiles \cup {[ok |-> TRUE, diseases |-> <<r>>] : r \in SynthPool}

\* the builder alone, on the wider choice of health files
NextSynth ==
    \/ \E file \in SynthFiles : StartBuild(file)
    \/ \E ok \in BOOLEAN : LoadEmbedder(ok)
    \/ \E ok \in BOOLEAN : GenerateEmbeddings(ok)
    \/ \E ok \in BOOLEAN : CreateIndex(ok)
    \/ \E ok \in BOOLEAN : SaveIndex(ok)
    \/ \E ok \in BOOLEAN : SaveDocs(ok)
    \/ \E ok \in BOOLEAN : SaveMeta(ok)
    \/ ExitBuild

SpecSynth == Init /\ [][NextSynth]_vars


\* ------------------------------------------------- diagnosis.py: the query
\* L2 distances of a stored vector to the query, in quarters: 0, 0.5 and 6
Distances == {0, 2, 24}

\* what faiss puts in a result slot it cannot fill: label -1 and the largest
\* float32 as its distance
NoResult == [idx |-> -1, distance |-> 4000000]

\* top_k of diagnose: 15 unless the caller gives one (TopKs); generate_response
\* gives none
DefaultTopK == 15
TopKs == {2}

\* the k nearest of the positions S, ascending by distance, the lower position
\* first among equal distances
RECURSIVE Nearest(_, _, _)
Nearest(S, dist, k) ==
    IF k = 0 \/ S = {} THEN <<>>
    ELSE LET p == CHOOSE p \in S :
                     \A q \in S : \/ dist[p] < dist[q]
                                  \/ dist[p] = dist[q] /\ p <= q
         IN  <<[idx |-> p, distance |-> dist[p]]>> \o Nearest(S \ {p}, dist, k - 1)

\* self.index.search(query, top_k): always top_k slots, the unfilled ones
\* holding NoResult
IndexSearch(index, dist, top_k) ==
    LET found == Nearest(0..(Len(index) - 1), dist, top_k)
    IN  found \o [i \in 1..(top_k - Len(found)) |-> NoResult]

\* max(0, 100 - (distance * 20))
Confidence(distance) == Max(0, 100 - (distance * 20) \div 4)

\* for i, idx in enumerate(indices[0]): if idx < len(self.metadata): ...
RECURSIVE Results(_, _, _, _)
Results(raw, i, metadata, results) ==
    IF i > Len(raw) THEN results
    ELSE IF raw[i].idx < Len(metadata)
         THEN LET disease_meta == PyIndex(metadata, raw[i].idx)
              IN  Results(raw, i + 1, metadata,
                          Append(results,
                                 [disease |-> disease_meta.disease,
                                  symptoms |-> disease_meta.symptoms,
                                  confidence |-> Confidence(raw[i].distance),
                                  distance |-> raw[i].distance]))
         ELSE Results(raw, i + 1, metadata, results)

\* self.metadata[idx] raises IndexError when idx is outside -len..len-1
Subscriptable(metadata, idx) == idx < Len(metadata) /\ idx >= 0 - Len(metadata)

\* the loop reaches a subscript that raises
SearchRaises(raw, metadata) ==
    \E i \in DOMAIN raw :
        raw[i].idx < Len(metadata) /\ ~Subscriptable(metadata, raw[i].idx)

search_similar_diseases(self, dist, top_k) ==
    Results(IndexSearch(self.index, dist, top_k), 1, self.metadata, <<>>)

\* position of disease_name among the keys of unique_diseases, 0 if absent
KeyPos(unique, disease_name) ==
    IF \E j \in DOMAIN unique : unique[j].key = disease_name
    THEN CHOOSE j \in DOMAIN unique : unique[j].key = disease_name
    ELSE 0

\* disease_info['confidence'] > unique_diseases[disease_name]['confidence']
Replaces_Always(disease_info, kept) == TRUE

Replaces(disease_info, kept) == disease_info.confidence > kept.confidence

\* the dedup loop over similar_diseases
RECURSIVE Dedup(_, _, _)
Dedup(similar, i, unique) ==
    IF i > Len(similar) THEN unique
    ELSE LET disease_name == similar[i].disease
             at == KeyPos(unique, disease_name)
         IN  Dedup(similar, i + 1,
                   IF at = 0
                   THEN Append(unique, [key |-> disease_name, value |-> similar[i]])
                   ELSE IF Replaces(similar[i], unique[at].value)
                        THEN [unique EXCEPT ![at].value = similar[i]]
                        ELSE unique)

Values(unique) == [j \in DOMAIN unique |-> unique[j].value]

\* sorted(..., key=confidence, reverse=True) is stable: an element goes after
\* every element that is not smaller
InsertDesc_TiesFirst(done, x) ==
    LET n == Cardinality({j \in DOMAIN done : done[j].confidence > x.confidence})
    IN  SubSeq(done, 1, n) \o <<x>> \o SubSeq(done, n + 1, Len(done))

InsertDesc(done, x) ==
    LET n == Cardinality({j \in DOMAIN done : done[j].confidence >= x.confidence})
    IN  SubSeq(done, 1, n) \o <<x>> \o SubSeq(done, n + 1, Len(done))

RECURSIVE SortedFrom(_, _, _)
SortedFrom(values, i, done) ==
    IF i > Len(values) THEN done
    ELSE SortedFrom(values, i + 1, InsertDesc(done, values[i]))

SortedByConfidence(values) == SortedFrom(values, 1, <<>>)

\* get_complete_disease_info: the first metadata entry whose lowered name is
\* the lowered disease_name; None if there is none
get_complete_disease_info(metadata, disease_name) ==
    LET hit == {j \in DOMAIN metadata :
                    Lower(metadata[j].disease) = Lower(disease_name)}
    IN  IF hit = {} THEN [found |-> FALSE,
              meta |-> [disease |-> "", symptoms |-> <<>>,
                        medicines |-> <<>>, precautions |-> <<>>]]
        ELSE [found |-> TRUE,
              meta |-> metadata[CHOOSE j \in hit : \A j2 \in hit : j <= j2]]

\* min(95, disease_info['confidence'])
CapConfidence_None(confidence) == confidence

CapConfidence(confidence) == Min(95, confidence)

\* for disease_info in sorted_diseases[:3]: ...
RECURSIVE FinalDiagnoses(_, _, _, _)
FinalDiagnoses(top, i, metadata, final) ==
    IF i > Len(top) THEN final
    ELSE LET complete_info == get_complete_disease_info(metadata, top[i].disease)
         IN  FinalDiagnoses(top, i + 1, metadata,
                 IF complete_info.found
                 THEN Append(final,
                             [disease |-> complete_info.meta.disease,
                              symptoms |-> complete_info.meta.symptoms,
                              medicines |-> complete_info.meta.medicines,
                              precautions |-> complete_info.meta.precautions,
                              confidence |-> CapConfidence(top[i].confidence)])
                 ELSE final)

\* diagnose: its locals and what it returns. Its only exception is the
\* IndexError of search_similar_diseases, which it lets through.
diagnose(self, dist, top_k) ==
    LET raw == IndexSearch(self.index, dist, top_k)
        similar_diseases == search_similar_diseases(self, dist, top_k)
        unique_diseases == Dedup(similar_diseases, 1, <<>>)
        sorted_diseases == SortedByConfidence(Values(unique_diseases))
    IN  IF SearchRaises(raw, self.metadata)
        THEN [called |-> TRUE, top_k |-> top_k, raw |-> raw,
              hits |-> <<>>, unique |-> <<>>, sorted |-> <<>>,
              diagnoses |-> <<>>, error |-> "IndexError",
              message |-> [kind |-> "none", count |-> 0]]
        ELSE [called |-> TRUE, top_k |-> top_k, raw |-> raw,
              hits |-> similar_diseases,
              unique |-> unique_diseases,
              sorted |-> sorted_diseases,
              diagnoses |-> FinalDiagnoses(Take(sorted_diseases, 3), 1,
                                           self.metadata, <<>>),
              error |-> "none",
              message |-> [kind |-> "none", count |-> 0]]

\* the distances of the stored vectors to the query the encoder produced
QueryDistances(self) == [0..(Len(self.index) - 1) -> Distances]

\* a diagnose that drops the last metadata entry it has read
Diagnose_PopsMetadata(dist, top_k) ==
    /\ pcL = "loaded"
    /\ ~lastCall.called
    /\ lastCall' = diagnose(diagnoser, dist, top_k)
    /\ diagnoser' = [diagnoser EXCEPT
                        !.metadata = SubSeq(@, 1, Max(0, Len(@) - 1))]
    /\ UNCHANGED <<storeVars, builderVars, pcL, loadedBuild>>

\* diagnoser.diagnose(symptoms_text, top_k)
Diagnose(dist, top_k) ==
    /\ pcL = "loaded"
    /\ ~lastCall.called
    /\ lastCall' = diagnose(diagnoser, dist, top_k)
    /\ UNCHANGED <<storeVars, builderVars, loaderVars>>

\* generate_response: the dict it builds from what diagnose returned
Response(call) ==
    IF call.error # "none" THEN call
    ELSE IF call.diagnoses = <<>>
         THEN [call EXCEPT !.message = [kind |-> "no_match", count |-> 0]]
         ELSE [call EXCEPT !.message = [kind |-> "found",
                                        count |-> Len(call.diagnoses)]]

\* diagnoser.generate_response(symptoms_text)
GenerateResponse(dist) ==
    /\ pcL = "loaded"
    /\ ~lastCall.called
    /\ \E call \in {diagnose(diagnoser, dist, DefaultTopK)} :
           lastCall' = Response(call)
    /\ UNCHANGED <<storeVars, builderVars, loaderVars>>

\* the caller is done with what the call returned; the next call may start
Return ==
    /\ lastCall.called
    /\ lastCall' = NoCall
    /\ UNCHANGED <<storeVars, builderVars, loaderVars>>

\* the records a loaded metadata table may hold
MetaPool ==
    { [disease |-> "Flu", symptoms |-> <<"fever", "cough">>,
       medicines |-> <<"Paracetamol">>, precautions |-> <<"Rest">>],
      [disease |-> "flu", symptoms |-> <<>>, medicines |-> <<>>,
       precautions |-> <<>>],
      [disease |-> "Migraine", symptoms |-> <<"headache", "nausea">>,
       medicines |-> <<>>, precautions |-> <<"Avoid light">>],
      [disease |-> "Cold", symptoms |-> <<"sneezing">>,
       medicines |-> <<>>, precautions |-> <<>>] }

\* a diagnoser whose constructor returned: load_faiss_index takes whatever the
\* three artifacts hold, so the tables are drawn independently
LoadedDiagnosers ==
    { [index |-> [i \in 1..n |-> Embed(comprehensive_doc(
                      IF i <= Len(m) THEN m[i]
                      ELSE [disease |-> "Cold", symptoms |-> <<>>,
                            medicines |-> <<>>, precautions |-> <<>>]))],
       documents |-> [i \in 1..Len(m) |-> comprehensive_doc(m[i])],
       metadata |-> m] :
        n \in 0..MaxVectors, m \in SeqsUpTo(MetaPool, MaxMeta) }

InitDiagnose ==
    /\ store = EmptyStore
    /\ storeBuild = NoBuilds
    /\ pcB = "idle"
    /\ build = 0
    /\ kb = EmptyKb
    /\ bIndex = <<>>
    /\ storeBefore = [store |-> EmptyStore, builds |-> NoBuilds]
    /\ outcomes = <<>>
    /\ pcL = "loaded"
    /\ diagnoser \in LoadedDiagnosers
    /\ loadedBuild = NoBuilds
    /\ lastCall = NoCall

NextDiagnose ==
    \/ \E dist \in QueryDistances(diagnoser) : \E top_k \in TopKs : Diagnose(dist, top_k)
    \/ \E dist \in QueryDistances(diagnoser) : GenerateResponse(dist)
    \/ Return

SpecDiagnose == InitDiagnose /\ [][NextDiagnose]_vars


\* ================================================================ claims
\* ------------------------------------------------- the diagnosis engine

Confidences(hits, name) ==
    {hits[i].confidence : i \in {j \in DOMAIN hits : hits[j].disease = name}}

SetMax(S) == CHOOSE c \in S : \A c2 \in S : c >= c2

\* C1: after deduplication every disease name that occurs among the search
\* hits has exactly one surviving hit, and that hit's confidence is the
\* largest confidence of any hit with that name.
C1_DedupKeepsMax ==
    lastCall.called =>
        LET hits == lastCall.hits
            kept == Values(lastCall.unique)
        IN  /\ \A i \in DOMAIN hits :
                  /\ Cardinality({j \in DOMAIN kept :
                                      kept[j].disease = hits[i].disease}) = 1
                  /\ \A j \in DOMAIN kept :
                         kept[j].disease = hits[i].disease =>
                             kept[j].confidence
                                 = SetMax(Confidences(hits, hits[i].disease))
            /\ \A j \in DOMAIN kept : \E i \in DOMAIN hits : kept[j] = hits[i]

\* a call whose hits hold one name three times, with two confidences
C1_Witness ==
    /\ lastCall.called
    /\ \E i, j, l \in DOMAIN lastCall.hits :
           /\ i < j /\ j < l
           /\ lastCall.hits[i].disease = lastCall.hits[j].disease
           /\ lastCall.hits[j].disease = lastCall.hits[l].disease
           /\ lastCall.hits[i].confidence > lastCall.hits[l].confidence
    /\ Len(lastCall.unique) >= 2

InRange(x, lo, hi) == lo <= x /\ x <= hi

\* C2: every hit's confidence is within 0..100; every returned Diagnosis has
\* a confidence within 0..95, which is min(95, c) for the confidence c of the
\* ranked hit it was built from.
C2_ConfidenceRanges ==
    lastCall.called =>
        /\ \A i \in DOMAIN lastCall.hits :
               InRange(lastCall.hits[i].confidence, 0, 100)
        /\ Len(lastCall.diagnoses) = Min(3, Len(lastCall.sorted))
        /\ \A j \in DOMAIN lastCall.diagnoses :
               /\ InRange(lastCall.diagnoses[j].confidence, 0, 95)
               /\ lastCall.diagnoses[j].confidence
                      = Min(95, lastCall.sorted[j].confidence)

\* a call that returns a capped, an uncapped and a zero confidence, one of
\* them from a distance beyond 5
C2_Witness ==
    /\ lastCall.called
    /\ Len(lastCall.diagnoses) = 3
    /\ lastCall.sorted[1].confidence = 100
    /\ lastCall.diagnoses[1].confidence = 95
    /\ lastCall.diagnoses[2].confidence = 90
    /\ lastCall.diagnoses[3].confidence = 0
    /\ lastCall.sorted[3].distance = 24

\* position of the first hit with that name
FirstSeen(hits, name) ==
    CHOOSE i \in DOMAIN hits :
        /\ hits[i].disease = name
        /\ \A j \in DOMAIN hits : hits[j].disease = name => i <= j

\* C3: the returned Diagnoses follow the ranking by uncapped hit confidence,
\* descending, and among equal confidences the disease whose name came
\* first among the search hits comes first.
C3_RankedStable ==
    lastCall.called =>
        LET ranked == lastCall.sorted
            out == lastCall.diagnoses
        IN  /\ \A j \in DOMAIN out :
                  /\ j <= Len(ranked)
                  /\ Lower(out[j].disease) = Lower(ranked[j].disease)
            /\ \A a, b \in DOMAIN ranked :
                   a < b =>
                       /\ ranked[a].confidence >= ranked[b].confidence
                       /\ ranked[a].confidence = ranked[b].confidence =>
                              FirstSeen(lastCall.hits, ranked[a].disease)
                                  < FirstSeen(lastCall.hits, ranked[b].disease)

\* a call that returns two diseases of equal confidence below a third
C3_Witness ==
    /\ lastCall.called
    /\ Len(lastCall.diagnoses) = 3
    /\ lastCall.sorted[1].confidence > lastCall.sorted[2].confidence
    /\ lastCall.sorted[2].confidence = lastCall.sorted[3].confidence
    /\ lastCall.sorted[2].confidence = 90
    /\ lastCall.diagnoses[2].disease # lastCall.diagnoses[3].disease

\* the positions the index search found (its filled result slots)
Found(raw) == {raw[i].idx : i \in {j \in DOMAIN raw : raw[j].idx >= 0}}

\* the disease names of the stored vectors the search reached
ReachedNames(self, raw) ==
    {self.metadata[p + 1].disease : p \in {q \in Found(raw) : q < Len(self.metadata)}}

\* C4: against an index that holds at least one vector, diagnose returns
\* exactly min(3, U) Diagnoses, U the number of distinct disease names among
\* the stored vectors the search reached, and no error.
C4_ReturnsMinTopNUnique ==
    (lastCall.called /\ Len(diagnoser.index) >= 1) =>
        /\ lastCall.error = "none"
        /\ Len(lastCall.diagnoses)
               = Min(3, Cardinality(ReachedNames(diagnoser, lastCall.raw)))

\* C8: with 1 <= n < k vectors in the index (and a metadata entry for each),
\* search returns exactly n hits, one per stored position 0..n-1 and carrying
\* that position's metadata; a result slot the index left unfilled never
\* becomes a hit.
C8_FewerVectorsThanK ==
    ( /\ lastCall.called
      /\ Len(diagnoser.index) >= 1
      /\ Len(diagnoser.index) < lastCall.top_k
      /\ Len(diagnoser.metadata) = Len(diagnoser.index) ) =>
        /\ lastCall.error = "none"
        /\ Len(lastCall.hits) = Len(diagnoser.index)
        /\ \A i \in DOMAIN lastCall.hits :
               /\ lastCall.raw[i].idx >= 0
               /\ lastCall.hits[i].disease
                      = diagnoser.metadata[lastCall.raw[i].idx + 1].disease

\* C9: a diagnose call against a loaded index of zero vectors fails with
\* EmptyIndex and returns no Diagnosis, whatever the metadata table holds.
C9_EmptyIndexFails ==
    (lastCall.called /\ Len(diagnoser.index) = 0) =>
        /\ lastCall.error = "EmptyIndex"
        /\ lastCall.diagnoses = <<>>

\* ------------------------------------------------- the persisted store

Artifacts(st) == <<st.index, st.docs, st.meta>>

\* C5: a diagnoser that loaded while builds ran (none of which failed) read
\* its index, documents and metadata from one and the same build.
C5_LoadSeesOneBuild ==
    ( /\ pcL = "loaded"
      /\ \A i \in DOMAIN outcomes : outcomes[i] ) =>
        /\ loadedBuild.index = loadedBuild.docs
        /\ loadedBuild.docs = loadedBuild.meta

\* C6: when a build has failed, the three artifacts are what they were when
\* the build started, and none of them was written by the failed build.
C6_FailedBuildLeavesStore ==
    pcB = "failed" =>
        /\ Artifacts(store) = Artifacts(storeBefore.store)
        /\ storeBuild = storeBefore.builds

\* C7: no diagnoser is left loaded with an index, a document list and a
\* metadata list of different sizes.
C7_LoadedTablesSameSize ==
    pcL = "loaded" =>
        /\ Len(diagnoser.index) = Len(diagnoser.documents)
        /\ Len(diagnoser.documents) = Len(diagnoser.metadata)

\* number of documents of one record: the comprehensive view and one view per
\* non-empty list
NumViews(r) ==
    1 + (IF r.symptoms # <<>> THEN 1 ELSE 0)
      + (IF r.medicines # <<>> THEN 1 ELSE 0)
      + (IF r.precautions # <<>> THEN 1 ELSE 0)

\* number of documents of the records before record j
RECURSIVE Offset(_, _)
Offset(records, j) ==
    IF j <= 1 THEN 0 ELSE Offset(records, j - 1) + NumViews(records[j - 1])

\* the record whose documents cover position i
Owner(records, i) ==
    CHOOSE j \in DOMAIN records :
        Offset(records, j) < i /\ i <= Offset(records, j) + NumViews(records[j])

\* C10: after a successful build the persisted vector table, document list
\* and metadata list have the same length, and at every position the metadata
\* entry holds the fields of the record the document there was synthesized
\* from, the records' documents following each other in record order.
C10_ParallelTables ==
    pcB = "done" =>
        LET records == kb.records
            n == Offset(records, Len(records) + 1)
        IN  /\ store.index.exists /\ store.docs.exists /\ store.meta.exists
            /\ Len(store.index.data) = n
            /\ Len(store.docs.data) = n
            /\ Len(store.meta.data) = n
            /\ \A i \in 1..n :
                   LET r == records[Owner(records, i)]
                   IN  /\ store.meta.data[i] = MetaOf(r)
                       /\ store.docs.data[i]
                              = doc_variations(r)[i - Offset(records, Owner(records, i))]
                       /\ store.index.data[i] = Embed(store.docs.data[i])

\* a rebuild that succeeded on a file of a one-document record followed by a
\* four-document record
C10_Witness ==
    /\ pcB = "done"
    /\ build = 2
    /\ Len(kb.records) = 2
    /\ kb.records[1].disease = "flu"
    /\ kb.records[2].disease = "Flu"
    /\ Len(store.meta.data) = 5


\* ------------------------------------------------- the document synthesizer

\* positions of the comprehensive views among the documents
CompPositions(docs) == {i \in DOMAIN docs : docs[i].view = "comprehensive"}

\* position of the j-th comprehensive view
NthComp(docs, j) ==
    CHOOSE i \in CompPositions(docs) :
        Cardinality({k \in CompPositions(docs) : k <= i}) = j

\* the documents from the j-th comprehensive view up to the next one
Segment(docs, j) ==
    SubSeq(docs, NthComp(docs, j),
           IF j = Cardinality(CompPositions(docs)) THEN Len(docs)
           ELSE NthComp(docs, j + 1) - 1)

NonEmptyLists(r) ==
    Cardinality({l \in {"s", "m", "p"} :
                    \/ l = "s" /\ r.symptoms # <<>>
                    \/ l = "m" /\ r.medicines # <<>>
                    \/ l = "p" /\ r.precautions # <<>>})

C12_CallsLeaveTables ==
    [][/\ diagnoser'.index = diagnoser.index
       /\ diagnoser'.documents = diagnoser.documents
       /\ diagnoser'.metadata = diagnoser.metadata]_vars

\* a generate_response call that found conditions in non-empty tables
C12_Witness ==
    /\ lastCall.called
    /\ lastCall.error = "none"
    /\ lastCall.message.kind = "found"
    /\ lastCall.diagnoses # <<>>
    /\ diagnoser.metadata # <<>>
    /\ diagnoser.index # <<>>


\* ------------------------------------------------ names that differ in case

\* C13: every Diagnosis carries the record whose stored name is exactly the
\* name of the ranked hit it was built from, and no two Diagnoses of one
\* result have the same disease name, also when names of the metadata differ
\* only in letter case (tables of equal size, so that every hit is a stored
\* vector's own metadata entry).
C13_DiagnosisNamesItsHit ==
    (/\ lastCall.called
     /\ lastCall.error = "none"
     /\ Len(diagnoser.index) >= 1
     /\ Len(diagnoser.index) = Len(diagnoser.metadata))
    => /\ Len(lastCall.diagnoses) = Min(3, Len(lastCall.sorted))
       /\ \A j \in DOMAIN lastCall.diagnoses :
              lastCall.diagnoses[j].disease = lastCall.sorted[j].disease
       /\ \A j, k \in DOMAIN lastCall.diagnoses :
              lastCall.diagnoses[j].disease = lastCall.diagnoses[k].disease
                  => j = k

====
